---- MODULE Spec2Model ----
(***************************************************************************)
(* TradeDash server (src/server.js): a simulated price engine with a       *)
(* bounded per-symbol history, socket.io rooms as per-symbol broadcast     *)
(* groups, and subscriptions persisted in a MongoDB user collection.       *)
(*                                                                         *)
(* Node runs every callback to completion, so one action is one run of a   *)
(* callback between two awaits: the timer callback (Tick) is one action,   *)
(* and an async handler is cut at each await into the step that issues a   *)
(* store call, the store's execution of that call, and the resumption.     *)
(*                                                                         *)
(* Prices are integer cents (the code keeps them as toFixed(2) strings);   *)
(* the un-rounded floats of the price process are fixed-point numbers of   *)
(* UNITS_PER_CENT units per cent.  Math.random() is a draw from Levels     *)
(* (hundredths), the k-th draw of a source chosen by its seed.             *)
(***************************************************************************)
EXTENDS Integers, Sequences, FiniteSets, TLC

VARIABLES currentPrices,  \* symbol -> price in cents                (line 71)
          stockHistory,   \* symbol -> sequence of data points       (line 72)
          users,          \* email -> persisted subscriptions list   (line 48)
          userEmail,      \* connection -> socket.userEmail         (line 150)
          connected,      \* connection -> socket still connected
          rooms,          \* room name -> set of connections (socket.io adapter)
          tasks,          \* slot -> suspended async handler
          out,            \* the latest step that can emit, and the events it sent
          nticks,         \* timer callbacks run so far
          nevents,        \* client events received so far
          nfaults,        \* store calls that were rejected so far
          scope,          \* what the clients and the store may do in this run
          lastReq,        \* connection -> its latest accepted (un)subscribe request
          warm            \* the module's start-up: the warm-up loop's position

vars == <<currentPrices, stockHistory, users, userEmail, connected, rooms,
          tasks, out, nticks, nevents, nfaults, scope, lastReq, warm>>

---------------------------------------------------------------------------
(* Bounds of the model *)
MaxTicks == 2
MaxEvents == 2
MaxFaults == 1
MaxDeepEvents == 4
MaxTasks == 2
MaxEngineTicks == 3
MaxLiveEvents == 2
DayTicks == 3

(* Program constants *)
HISTORY_CAP == 100
WARMUP_STEPS == 100
PERIOD == 3000
MIN_PRICE == 1000
UNITS_PER_CENT == 100

---------------------------------------------------------------------------
(* Instrument catalog *)
STOCKS == <<"GOOG", "TSLA", "AMZN", "META", "NVDA">>

\* faulty variant: a catalog that lists a stock under 10.00
PennyBasePrices ==
    [s \in {"GOOG", "TSLA", "AMZN", "META", "NVDA"} |->
        IF s = "NVDA" THEN 500 ELSE 17550]

STOCK_BASE_PRICES ==
    [s \in {"GOOG", "TSLA", "AMZN", "META", "NVDA"} |->
        CASE s = "GOOG" -> 17550
          [] s = "TSLA" -> 34220
          [] s = "AMZN" -> 20210
          [] s = "META" -> 59500
          [] s = "NVDA" -> 13880]

StockSet == {STOCKS[i] : i \in DOMAIN STOCKS}

\* faulty variant: no catalog check
IsValidSymbolAny(s) == TRUE

\* STOCKS.includes(stockCode), lines 202 and 242
IsValidSymbol(s) == s \in StockSet

RECURSIVE IndexOf(_, _)
IndexOf(s, i) == IF STOCKS[i] = s THEN i ELSE IndexOf(s, i + 1)

---------------------------------------------------------------------------
(* Arithmetic of the price process *)
Abs(x) == IF x < 0 THEN -x ELSE x

\* x / d rounded to the nearest integer, halves away from zero
RoundDiv(x, d) ==
    IF x >= 0 THEN (2 * x + d) \div (2 * d)
              ELSE -((2 * (-x) + d) \div (2 * d))

\* Number.toFixed(2) of a fixed-point value, as cents
ToFixed2(u) == RoundDiv(u, UNITS_PER_CENT)

\* parseFloat of a toFixed(2) string, as a fixed-point value
ParseFloat(cents) == cents * UNITS_PER_CENT

\* Math.random(), in hundredths: the k-th draw of the source seeded with seed
Levels == <<0, 50, 99>>
Random(seed, k) ==
    CASE seed = 0 -> 50
      [] seed = 4 -> Levels[1]
      [] seed = 5 -> Levels[Len(Levels)]
      [] OTHER -> Levels[((seed + k) % Len(Levels)) + 1]

---------------------------------------------------------------------------
(* Seeding warm-up, lines 75-92 *)
WarmupVolatility(rnd) == (rnd - 50) * 80
WarmupPull(base, temp) == RoundDiv(ParseFloat(base) - temp, 20)

SeedPoint(temp, i) ==
    [price |-> ToFixed2(temp), timestamp |-> 0 - i * PERIOD]

\* lines 82-84: tempPrice after one more iteration
WarmupStep(base, temp, rnd) ==
    temp + WarmupVolatility(rnd) + WarmupPull(base, temp)

---------------------------------------------------------------------------
(* Steady-state advance, lines 97-114 *)
TickNoise(rnd) == rnd * 40 - 2000
TickPull(base, current) == RoundDiv(ParseFloat(base) - current, 50)

Floor(newPrice) ==
    IF newPrice < ParseFloat(MIN_PRICE) THEN ParseFloat(MIN_PRICE) ELSE newPrice

Advance(stockCode, cur, rnd) ==
    ToFixed2(Floor(ParseFloat(cur) + TickNoise(rnd)
                   + TickPull(STOCK_BASE_PRICES[stockCode], ParseFloat(cur))))

DataPoint(stockCode, price, now) ==
    [code |-> stockCode, price |-> price, timestamp |-> now]

\* faulty variant: the push without the shift of line 114
PushHistoryNoShift(hist, dataPoint) == Append(hist, dataPoint)

\* faulty variant: pop for shift, the newest entry is the one evicted
PushHistoryPop(hist, dataPoint) ==
    LET h == Append(hist, dataPoint)
    IN  IF Len(h) > HISTORY_CAP THEN SubSeq(h, 1, HISTORY_CAP) ELSE h

\* push, then shift when the length exceeds the capacity
PushHistory(hist, dataPoint) ==
    LET h == Append(hist, dataPoint)
    IN  IF Len(h) > HISTORY_CAP THEN Tail(h) ELSE h

---------------------------------------------------------------------------
(* Connections, accounts and client inputs *)
ConnOrder == <<"c1", "c2">>
Conns == {ConnOrder[i] : i \in DOMAIN ConnOrder}
Accounts == {"ann@x.io", "bob@x.io"}
Emails == {"ann@x.io", "nobody@x.io"}
Undefined == "undefined"
ReqSymbols == {"GOOG", "DOGE"}
RoomNames == StockSet \cup ReqSymbols
StocksInputs == {<<"GOOG">>, <<"TSLA", "GOOG", "DOGE">>}
Slots == 1..MaxTasks

Idle == [kind |-> "idle"]
NoReq == [op |-> "none"]
FreeSlots == {k \in Slots : tasks[k].kind = "idle"}
\* handlers are independent: the lowest free slot stands for any of them
NewSlot == CHOOSE k \in FreeSlots : \A j \in FreeSlots : k <= j

\* a handler starts: the subscribe handlers in flight no longer run alone
Overlap(ts) ==
    [k \in Slots |-> IF ts[k].kind = "subscribe" THEN [ts[k] EXCEPT !.alone = FALSE]
                     ELSE ts[k]]

HasSymbol(subs, symbol) == \E i \in DOMAIN subs : subs[i].symbol = symbol

\* faulty variant: no login check
IsAuthenticatedAlways(c) == TRUE

\* if (!socket.userEmail), lines 191, 201 and 226
IsAuthenticated(c) == userEmail[c] # Undefined

\* parseFloat(currentPrices[stockCode]), line 205
PriceNow(stockCode) == currentPrices[stockCode]

\* the value of out: the step and the events it sent, in order
Sent(by, events) == [by |-> by, events |-> events]

\* socket.emit: a closed socket's packets are discarded
Emit(c, event) == IF connected[c] THEN <<event @@ [to |-> c]>> ELSE <<>>

\* faulty variant: a join that does not enter the room
JoinNothing(rms, c, room) == rms

\* socket.join(room) / socket.leave(room) on the adapter's room table
Join(rms, c, room) == [rms EXCEPT ![room] = @ \cup {c}]

\* faulty variant: a leave that stays in the room
LeaveNothing(rms, c, room) == rms

Leave(rms, c, room) == [rms EXCEPT ![room] = @ \ {c}]

\* $pull {subscriptions: {symbol}} and $push {subscriptions: {...}}
RECURSIVE PullSubs(_, _)
PullSubs(subs, symbol) ==
    IF subs = <<>> THEN <<>>
    ELSE IF Head(subs).symbol = symbol THEN PullSubs(Tail(subs), symbol)
    ELSE <<Head(subs)>> \o PullSubs(Tail(subs), symbol)

PushSubs(subs, symbol, entryPrice) ==
    Append(subs, [symbol |-> symbol, entryPrice |-> entryPrice])

\* User.updateOne({email}, ...): a filter that matches no user changes nothing
UpdateOnePull(us, email, symbol) ==
    IF email \in DOMAIN us THEN [us EXCEPT ![email] = PullSubs(@, symbol)] ELSE us

UpdateOnePush(us, email, symbol, entryPrice) ==
    IF email \in DOMAIN us THEN [us EXCEPT ![email] = PushSubs(@, symbol, entryPrice)]
    ELSE us

\* faulty variant: a findOne that returns no subscription
FindSubsNone(us, email) == <<>>

\* User.findOne({email}).subscriptions, for an email that may match no user
FindSubs(us, email) == IF email \in DOMAIN us THEN us[email] ELSE <<>>

---------------------------------------------------------------------------
(* Start-up, lines 71-92 *)
\* what an earlier run left in the store: entry prices exactly 20% under and
\* exactly 20% over the base price, a zero, a missing one, one far off, one
\* close, and a symbol that is not in the catalog
StaleSubs ==
    <<[symbol |-> "GOOG", entryPrice |-> 14040],
      [symbol |-> "TSLA", entryPrice |-> 0],
      [symbol |-> "AMZN", entryPrice |-> 24252],
      [symbol |-> "META"],
      [symbol |-> "NVDA", entryPrice |-> 13000],
      [symbol |-> "DOGE", entryPrice |-> 5],
      [symbol |-> "META", entryPrice |-> 71401]>>
StaleUsers == [a \in Accounts |-> IF a = "ann@x.io" THEN StaleSubs ELSE <<>>]
NoSubs == [a \in Accounts |-> <<>>]

AllOps == {"login", "subscribe", "unsubscribe", "unsubscribeAll", "joinFeed",
           "disconnect", "noPayload"}

\* every handler and every kind of input, a few events; a warm-up whose draws
\* are all 0.5 leaves every symbol at its base price
Broad ==
    [name |-> "broad", events |-> MaxEvents, ticks |-> MaxTicks, faults |-> MaxFaults,
     ops |-> AllOps, conns |-> Conns, emails |-> Emails, symbols |-> ReqSymbols,
     isMatch |-> BOOLEAN, seeds |-> {0}, tickSeeds |-> {2},
     users |-> StaleUsers, day |-> 0]

\* one symbol and a healthy store, more events
Deep ==
    [name |-> "deep", events |-> MaxDeepEvents, ticks |-> MaxTicks, faults |-> 0,
     ops |-> {"login", "subscribe", "unsubscribe"}, conns |-> {"c1"},
     emails |-> Accounts, symbols |-> {"GOOG"},
     isMatch |-> {TRUE}, seeds |-> {1}, tickSeeds |-> {2},
     users |-> NoSubs, day |-> 0]

\* the price engine on its own: no client; draws that are all the lowest, all
\* the highest, all 0.5, or mixed, in the warm-up and in each tick
Engine ==
    [name |-> "engine", events |-> 0, ticks |-> MaxEngineTicks, faults |-> 0,
     ops |-> {}, conns |-> {}, emails |-> {}, symbols |-> {},
     isMatch |-> {}, seeds |-> {0, 1, 4, 5}, tickSeeds |-> {0, 2, 4, 5},
     users |-> NoSubs, day |-> 0]

\* the server left running for ever: one client, a store that can fail, and a
\* clock that shows the time of day, which comes round again after a day (the
\* timestamps of lines 88 and 110 are toLocaleTimeString values)
Live ==
    [name |-> "live", events |-> MaxLiveEvents, ticks |-> 0, faults |-> MaxFaults,
     ops |-> {"login", "subscribe", "noPayload"}, conns |-> {"c1"},
     emails |-> {"ann@x.io"}, symbols |-> {"GOOG"},
     isMatch |-> {TRUE}, seeds |-> {0}, tickSeeds |-> {0},
     users |-> NoSubs, day |-> DayTicks]

\* lines 76-80 for the stock at position idx of the catalog
StartStock(idx, seed, k) ==
    [phase |-> "seeding", idx |-> idx, i |-> WARMUP_STEPS,
     tempPrice |-> ParseFloat(STOCK_BASE_PRICES[STOCKS[idx]]), seed |-> seed, k |-> k]

Running == warm.phase = "running"

\* The module is loading: lines 71-72 have run, and lines 76-80 for the first
\* stock.  A price or a history exists only for the stocks reached so far.
InitIn(sc) ==
    /\ scope = sc
    /\ \E seed \in sc.seeds : warm = StartStock(1, seed, 0)
    /\ currentPrices = [s \in {STOCKS[1]} |-> STOCK_BASE_PRICES[s]]
    /\ stockHistory = [s \in {STOCKS[1]} |-> <<>>]
    /\ users = sc.users
    /\ userEmail = [c \in Conns |-> Undefined]
    /\ connected = [c \in Conns |-> TRUE]
    /\ rooms = [r \in RoomNames |-> {}]
    /\ tasks = [k \in Slots |-> Idle]
    /\ out = Sent([op |-> "load"], <<>>)
    /\ nticks = 0
    /\ nevents = 0
    /\ nfaults = 0
    /\ lastReq = [c \in Conns |-> NoReq]

Init == InitIn(Broad)
InitDeep == InitIn(Deep)
InitEngine == InitIn(Engine)
InitLive == InitIn(Live)

\* one iteration of the loop of lines 81-90
SeedStep ==
    LET stock == STOCKS[warm.idx]
        t2 == WarmupStep(STOCK_BASE_PRICES[stock], warm.tempPrice,
                         Random(warm.seed, warm.k))
    IN
    /\ warm.phase = "seeding" /\ warm.i > 0
    /\ stockHistory' = [stockHistory EXCEPT ![stock] = Append(@, SeedPoint(t2, warm.i))]
    /\ warm' = [warm EXCEPT !.tempPrice = t2, !.i = @ - 1, !.k = @ + 1]
    /\ UNCHANGED <<currentPrices, users, userEmail, connected, rooms, tasks, out,
                   nticks, nevents, nfaults, scope, lastReq>>

\* the loop ends: line 91, then lines 76-80 for the next stock, or the server
\* starts (timer, lines 95-118; handlers, lines 121-248)
SeedDone ==
    LET stock == STOCKS[warm.idx]
        cp == [currentPrices EXCEPT ![stock] = ToFixed2(warm.tempPrice)]
    IN
    /\ warm.phase = "seeding" /\ warm.i = 0
    /\ IF warm.idx < Len(STOCKS)
       THEN LET next == STOCKS[warm.idx + 1] IN
            /\ warm' = StartStock(warm.idx + 1, warm.seed, warm.k)
            /\ currentPrices' = cp @@ (next :> STOCK_BASE_PRICES[next])
            /\ stockHistory' = stockHistory @@ (next :> <<>>)
            /\ out' = out
       ELSE /\ warm' = [phase |-> "running"]
            /\ currentPrices' = cp
            /\ stockHistory' = stockHistory
            /\ out' = Sent([op |-> "listen"], <<>>)
    /\ UNCHANGED <<users, userEmail, connected, rooms, tasks, nticks,
                   nevents, nfaults, scope, lastReq>>

---------------------------------------------------------------------------
(* The update loop, lines 95-118 *)
\* faulty variant: io.emit: every socket of the namespace
MembersEveryone(room) == {c \in Conns : connected[c]}

\* io.to(room).emit: every socket of the room that the namespace still holds
Members(room) == {c \in rooms[room] : connected[c]}

\* faulty variant: the event goes to every connected socket
BroadcastAll(room, event) ==
    LET Open(c) == connected[c]
        cs == SelectSeq(ConnOrder, Open)
    IN  [i \in 1..Len(cs) |-> event @@ [to |-> cs[i]]]

Broadcast(room, event) ==
    LET InRoom(c) == c \in Members(room)
        cs == SelectSeq(ConnOrder, InRoom)
    IN  [i \in 1..Len(cs) |-> event @@ [to |-> cs[i]]]

TickPrice(stockCode, seed) ==
    Advance(stockCode, currentPrices[stockCode],
            Random(seed, IndexOf(stockCode, 1) - 1))

\* faulty variant: the data point is built before the price is advanced
TickPointStale(stockCode, seed, now) ==
    DataPoint(stockCode, currentPrices[stockCode], now)

TickPoint(stockCode, seed, now) ==
    DataPoint(stockCode, TickPrice(stockCode, seed), now)

RECURSIVE TickEmits(_, _, _)
TickEmits(i, seed, now) ==
    IF i > Len(STOCKS) THEN <<>>
    ELSE Broadcast(STOCKS[i], [ev |-> "priceUpdate"] @@ TickPoint(STOCKS[i], seed, now))
         \o TickEmits(i + 1, seed, now)

Tick ==
    /\ Running
    /\ scope.day > 0 \/ nticks < scope.ticks
    /\ \E seed \in scope.tickSeeds :
         LET now == (nticks + 1) * PERIOD IN
         /\ currentPrices' = [s \in StockSet |-> TickPrice(s, seed)]
         /\ stockHistory' =
              [s \in StockSet |-> PushHistory(stockHistory[s], TickPoint(s, seed, now))]
         /\ out' = Sent([op |-> "tick"], TickEmits(1, seed, now))
    /\ nticks' = IF scope.day > 0 THEN (nticks + 1) % scope.day ELSE nticks + 1
    /\ UNCHANGED <<warm, scope, lastReq, users, userEmail, connected, rooms, tasks, nevents, nfaults>>

---------------------------------------------------------------------------
(* Handlers that run to completion *)
\* socket.on('unsubscribeAll'), lines 190-197
RECURSIVE LeaveAll(_, _, _)
LeaveAll(rms, c, stocks) ==
    IF stocks = <<>> THEN rms
    ELSE LeaveAll(Leave(rms, c, Head(stocks)), c, Tail(stocks))

UnsubscribeAll(c, stocks, isArray) ==
    /\ Running
    /\ "unsubscribeAll" \in scope.ops
    /\ connected[c]
    /\ nevents < scope.events
    /\ rooms' = IF ~IsAuthenticated(c) \/ ~isArray THEN rooms
                ELSE LeaveAll(rooms, c, stocks)
    /\ out' = Sent([op |-> "unsubscribeAll", conn |-> c, stocks |-> stocks,
                    isArray |-> isArray], <<>>)
    /\ nevents' = nevents + 1
    /\ UNCHANGED <<warm, scope, lastReq, currentPrices, stockHistory, users, userEmail, connected,
                   tasks, nticks, nfaults>>

\* socket.on('joinFeed'), lines 241-245
JoinFeed(c, stockCode) ==
    /\ Running
    /\ "joinFeed" \in scope.ops
    /\ connected[c]
    /\ nevents < scope.events
    /\ rooms' = IF IsValidSymbol(stockCode) THEN Join(rooms, c, stockCode) ELSE rooms
    /\ out' = Sent([op |-> "joinFeed", conn |-> c, stockCode |-> stockCode], <<>>)
    /\ nevents' = nevents + 1
    /\ UNCHANGED <<warm, scope, lastReq, currentPrices, stockHistory, users, userEmail, connected,
                   tasks, nticks, nfaults>>

\* socket.on('disconnect'), line 247: the handler does nothing; socket.io has
\* removed the socket from every room and from the namespace before it runs
Disconnect(c) ==
    /\ Running
    /\ "disconnect" \in scope.ops
    /\ connected[c]
    /\ connected' = [connected EXCEPT ![c] = FALSE]
    /\ rooms' = [r \in RoomNames |-> rooms[r] \ {c}]
    /\ UNCHANGED <<warm, scope, lastReq, currentPrices, stockHistory, users, userEmail, tasks, out,
                   nticks, nevents, nfaults>>

\* A joinFeed or unsubscribeAll event that carries no payload.  The handlers
\* of lines 190 and 241 destructure their argument, which is undefined: the
\* TypeError is thrown in the listener that socket.io calls, nothing catches
\* it (the file installs no uncaughtException handler), and Node exits.
NoPayload(c, event) ==
    /\ Running
    /\ "noPayload" \in scope.ops
    /\ connected[c]
    /\ nevents < scope.events
    /\ nevents' = nevents + 1
    /\ warm' = [phase |-> "exited"]
    /\ out' = Sent([op |-> "noPayload", conn |-> c, event |-> event], <<>>)
    /\ UNCHANGED <<scope, lastReq, currentPrices, stockHistory, users, userEmail,
                   connected, rooms, tasks, nticks, nfaults>>

---------------------------------------------------------------------------
(* socket.on('login'), lines 143-187 *)
\* Math.abs(entryP - currentP) > currentP * 0.2 of line 160 is evaluated in
\* binary64 on two-decimal operands.  Its rounding errors are below 10^-12, so
\* they decide the outcome only when the two sides are equal in exact
\* arithmetic, that is when the entry is exactly 20% away from the live price.
\* For those pairs <<entry, live>> of the base prices, FifthApart lists the
\* ones the model evaluates and FifthExceeded the ones for which binary64
\* gives true: 242.52 - 202.10 is 40.420000000000016, 202.10 * 0.2 is 40.42.
FifthApart ==
    {<<14040, 17550>>, <<21060, 17550>>, <<27376, 34220>>, <<41064, 34220>>,
     <<16168, 20210>>, <<24252, 20210>>, <<47600, 59500>>, <<71400, 59500>>,
     <<11104, 13880>>, <<16656, 13880>>}
FifthExceeded == {<<24252, 20210>>}
Binary64 == [p \in FifthApart |-> p \in FifthExceeded]

\* Math.abs(entryP - currentP) > currentP * 0.2, line 160
ExceedsFifth(entryP, currentP) ==
    LET diff == Abs(entryP - currentP) * 10
        fifth == currentP * 2
    IN  IF diff = fifth THEN Binary64[<<entryP, currentP>>] ELSE diff > fifth

\* the sanity check of lines 157-162: the entry price the client is shown
CleanEntry(sub, currentP) ==
    LET missing == "entryPrice" \notin DOMAIN sub
        entryP == IF missing THEN 0 ELSE sub.entryPrice
    IN  IF entryP = 0 \/ ExceedsFifth(entryP, currentP)
        THEN currentP ELSE entryP

\* sub && sub.symbol && STOCKS.includes(sub.symbol), line 156
ValidSub(sub) == sub.symbol \in StockSet

\* lines 152-170
RECURSIVE CleanSubs(_, _)
CleanSubs(subs, prices) ==
    IF subs = <<>> THEN <<>>
    ELSE LET sub == Head(subs)
             rest == CleanSubs(Tail(subs), prices)
         IN  IF ValidSub(sub)
             THEN <<[symbol |-> sub.symbol,
                     entryPrice |-> CleanEntry(sub, prices[sub.symbol])]>> \o rest
             ELSE rest

\* lines 172-175: the rooms joined and the events sent for the cleaned list
RECURSIVE RestoreRooms(_, _, _)
RestoreRooms(rms, c, cleanSubs) ==
    IF cleanSubs = <<>> THEN rms
    ELSE RestoreRooms(Join(rms, c, Head(cleanSubs).symbol), c, Tail(cleanSubs))

LoadHistory(c, code) ==
    Emit(c, [ev |-> "loadHistory", code |-> code, history |-> stockHistory[code]])

RECURSIVE RestoreEmits(_, _)
RestoreEmits(c, cleanSubs) ==
    IF cleanSubs = <<>> THEN <<>>
    ELSE LoadHistory(c, Head(cleanSubs).symbol) \o RestoreEmits(c, Tail(cleanSubs))

\* faulty variant: no authError is sent
AuthErrorNone(c, msg) == <<>>

AuthError(c, msg) == Emit(c, [ev |-> "authError", msg |-> msg])

\* the event arrives and the store answers findOne (or rejects it)
Login(c, email, isMatch, fault) ==
    /\ Running
    /\ "login" \in scope.ops
    /\ connected[c]
    /\ nevents < scope.events
    /\ FreeSlots # {}
    /\ fault => nfaults < scope.faults
    /\ tasks' = [Overlap(tasks) EXCEPT ![NewSlot] =
          [kind |-> "login", conn |-> c, pc |-> "compare", email |-> email,
           found |-> (~fault /\ email \in DOMAIN users),
           subscriptions |-> IF fault THEN <<>> ELSE FindSubs(users, email),
           isMatch |-> (~fault /\ email \in DOMAIN users /\ isMatch), fault |-> fault]]
    /\ nfaults' = IF fault THEN nfaults + 1 ELSE nfaults
    /\ nevents' = nevents + 1
    /\ out' = Sent([op |-> "loginCall", conn |-> c, email |-> email], <<>>)
    /\ UNCHANGED <<warm, scope, lastReq, currentPrices, stockHistory, users,
                   userEmail, connected, rooms, nticks>>

\* (A process that has exited resumes no handler: every step of a handler
\* requires Running.)
\* the handler resumes after findOne and bcrypt.compare.  A socket that closed
\* meanwhile has left its rooms; whether its join still enters the room table
\* depends on the socket.io build (lateJoin).
LoginFinish(k, lateJoin) ==
    LET t == tasks[k]
        c == t.conn
        ok == ~t.fault /\ t.found /\ t.isMatch
        cleanSubs == CleanSubs(t.subscriptions, currentPrices)
        by == [op |-> "login", conn |-> c, email |-> t.email, ok |-> ok]
    IN
    /\ Running
    /\ t.kind = "login"
    /\ connected[c] => lateJoin
    /\ tasks' = [tasks EXCEPT ![k] = Idle]
    /\ IF t.fault THEN
          /\ out' = Sent(by, AuthError(c, "Login failed."))
          /\ UNCHANGED <<userEmail, rooms>>
       ELSE IF ~t.found THEN
          /\ out' = Sent(by, AuthError(c, "User not found."))
          /\ UNCHANGED <<userEmail, rooms>>
       ELSE IF ~t.isMatch THEN
          /\ out' = Sent(by, AuthError(c, "Invalid password."))
          /\ UNCHANGED <<userEmail, rooms>>
       ELSE
          /\ userEmail' = [userEmail EXCEPT ![c] = t.email]
          /\ rooms' = IF lateJoin THEN RestoreRooms(rooms, c, cleanSubs) ELSE rooms
          /\ out' = Sent(by, RestoreEmits(c, cleanSubs)
                    \o Emit(c, [ev |-> "loginSuccess", email |-> t.email,
                                savedSubscriptions |-> cleanSubs,
                                availableStocks |-> STOCKS]))
    /\ UNCHANGED <<warm, scope, lastReq, currentPrices, stockHistory, users, connected, nticks,
                   nevents, nfaults>>

---------------------------------------------------------------------------
(* socket.on('subscribe'), lines 200-222 *)
\* lines 201-211: the checks, the join, the price read, and the $pull issued
Subscribe(c, stockCode) ==
    LET by == [op |-> "subscribe", conn |-> c, stockCode |-> stockCode] IN
    /\ Running
    /\ "subscribe" \in scope.ops
    /\ connected[c]
    /\ nevents < scope.events
    /\ nevents' = nevents + 1
    /\ IF ~IsAuthenticated(c) THEN
          /\ out' = Sent(by, AuthError(c, "Session expired. Relogin."))
          /\ UNCHANGED <<rooms, tasks, lastReq>>
       ELSE IF ~IsValidSymbol(stockCode) THEN
          /\ out' = Sent(by, <<>>)
          /\ UNCHANGED <<rooms, tasks, lastReq>>
       ELSE
          /\ FreeSlots # {}
          /\ rooms' = Join(rooms, c, stockCode)
          /\ tasks' = [Overlap(tasks) EXCEPT ![NewSlot] =
                [kind |-> "subscribe", conn |-> c, pc |-> "pull",
                 stockCode |-> stockCode, email |-> userEmail[c],
                 caller |-> userEmail[c],
                 priceNow |-> PriceNow(stockCode),
                 alone |-> (FreeSlots = Slots),
                 prior |-> HasSymbol(FindSubs(users, userEmail[c]), stockCode)]]
          /\ lastReq' = [lastReq EXCEPT ![c] =
                [op |-> "subscribe", stockCode |-> stockCode, email |-> userEmail[c],
                 priceNow |-> PriceNow(stockCode),
                 second |->
                    /\ lastReq[c].op = "subscribe"
                    /\ lastReq[c].stockCode = stockCode
                    /\ lastReq[c].email = userEmail[c]]]
          /\ out' = Sent(by, <<>>)
    /\ UNCHANGED <<warm, scope, currentPrices, stockHistory, users, userEmail,
                   connected, nticks, nfaults>>

\* the store executes the $pull of lines 209-212
SubscribePull(k) ==
    LET t == tasks[k] IN
    /\ Running
    /\ t.kind = "subscribe" /\ t.pc = "pull"
    /\ users' = UpdateOnePull(users, t.email, t.stockCode)
    /\ tasks' = [tasks EXCEPT ![k].pc = "pulled"]
    /\ UNCHANGED <<warm, scope, lastReq, currentPrices, stockHistory, userEmail, connected, rooms,
                   out, nticks, nevents, nfaults>>

\* the handler resumes and issues the $push of lines 213-216, whose filter
\* reads socket.userEmail again
SubscribeResume(k) ==
    LET t == tasks[k] IN
    /\ Running
    /\ t.kind = "subscribe" /\ t.pc = "pulled"
    /\ tasks' = [tasks EXCEPT ![k].pc = "push", ![k].email = userEmail[t.conn]]
    /\ UNCHANGED <<warm, scope, lastReq, currentPrices, stockHistory, users, userEmail, connected,
                   rooms, out, nticks, nevents, nfaults>>

\* the store executes the $push and the handler resumes at line 221
SubscribePush(k) ==
    LET t == tasks[k] IN
    /\ Running
    /\ t.kind = "subscribe" /\ t.pc = "push"
    /\ users' = UpdateOnePush(users, t.email, t.stockCode, t.priceNow)
    /\ tasks' = [tasks EXCEPT ![k] = Idle]
    /\ out' = Sent([op |-> "subscribed", conn |-> t.conn, stockCode |-> t.stockCode,
                    email |-> t.email, priceNow |-> t.priceNow,
                    alone |-> t.alone, prior |-> t.prior],
                   LoadHistory(t.conn, t.stockCode))
    /\ UNCHANGED <<warm, scope, lastReq, currentPrices, stockHistory, userEmail, connected, rooms,
                   nticks, nevents, nfaults>>

\* the store rejects the $pull or the $push: the catch of lines 217-219 logs,
\* and the handler goes on to line 221
SubscribeFault(k) ==
    LET t == tasks[k] IN
    /\ Running
    /\ t.kind = "subscribe" /\ t.pc \in {"pull", "push"}
    /\ nfaults < scope.faults
    /\ nfaults' = nfaults + 1
    /\ tasks' = [tasks EXCEPT ![k] = Idle]
    /\ out' = Sent([op |-> "subscribeFailed", conn |-> t.conn,
                    stockCode |-> t.stockCode],
                   LoadHistory(t.conn, t.stockCode))
    /\ UNCHANGED <<warm, scope, lastReq, currentPrices, stockHistory, users, userEmail, connected,
                   rooms, nticks, nevents>>

---------------------------------------------------------------------------
(* socket.on('unsubscribe'), lines 225-238 *)
Unsubscribe(c, stockCode) ==
    /\ Running
    /\ "unsubscribe" \in scope.ops
    /\ connected[c]
    /\ nevents < scope.events
    /\ nevents' = nevents + 1
    /\ out' = Sent([op |-> "unsubscribe", conn |-> c, stockCode |-> stockCode], <<>>)
    /\ IF ~IsAuthenticated(c) THEN UNCHANGED <<rooms, tasks, lastReq>>
       ELSE
          /\ FreeSlots # {}
          /\ rooms' = Leave(rooms, c, stockCode)
          /\ tasks' = [Overlap(tasks) EXCEPT ![NewSlot] =
                [kind |-> "unsubscribe", conn |-> c, pc |-> "pull",
                 stockCode |-> stockCode, email |-> userEmail[c]]]
          /\ lastReq' = [lastReq EXCEPT ![c] =
                [op |-> "unsubscribe", stockCode |-> stockCode, email |-> userEmail[c],
                 afterSubscribe |->
                    /\ lastReq[c].op \in {"subscribe", "unsubscribe"}
                    /\ lastReq[c].stockCode = stockCode
                    /\ lastReq[c].email = userEmail[c]
                    /\ (lastReq[c].op = "unsubscribe" => lastReq[c].afterSubscribe)]]
    /\ UNCHANGED <<warm, scope, currentPrices, stockHistory, users, userEmail,
                   connected, nticks, nfaults>>

\* the store executes the $pull of lines 231-234, or rejects it (lines 235-237)
UnsubscribePull(k, fault) ==
    LET t == tasks[k] IN
    /\ Running
    /\ t.kind = "unsubscribe"
    /\ fault => nfaults < scope.faults
    /\ nfaults' = IF fault THEN nfaults + 1 ELSE nfaults
    /\ users' = IF fault THEN users
                ELSE UpdateOnePull(users, t.email, t.stockCode)
    /\ tasks' = [tasks EXCEPT ![k] = Idle]
    /\ UNCHANGED <<warm, scope, lastReq, currentPrices, stockHistory, userEmail, connected, rooms,
                   out, nticks, nevents>>

---------------------------------------------------------------------------
Next ==
    \/ SeedStep
    \/ SeedDone
    \/ Tick
    \/ \E c \in scope.conns, email \in scope.emails, isMatch \in scope.isMatch,
          fault \in BOOLEAN : Login(c, email, isMatch, fault)
    \/ \E k \in Slots, lateJoin \in BOOLEAN : LoginFinish(k, lateJoin)
    \/ \E c \in scope.conns, s \in scope.symbols : Subscribe(c, s)
    \/ \E k \in Slots : SubscribePull(k)
    \/ \E k \in Slots : SubscribeResume(k)
    \/ \E k \in Slots : SubscribePush(k)
    \/ \E k \in Slots : SubscribeFault(k)
    \/ \E c \in scope.conns, s \in scope.symbols : Unsubscribe(c, s)
    \/ \E k \in Slots, fault \in BOOLEAN : UnsubscribePull(k, fault)
    \/ \E c \in scope.conns, stocks \in StocksInputs, isArray \in BOOLEAN :
          UnsubscribeAll(c, stocks, isArray)
    \/ \E c \in scope.conns, s \in scope.symbols : JoinFeed(c, s)
    \/ \E c \in scope.conns : Disconnect(c)
    \/ \E c \in scope.conns, event \in {"joinFeed", "unsubscribeAll"} :
          NoPayload(c, event)

Spec == Init /\ [][Next]_vars

\* the actions a run of Deep can take
NextDeep ==
    \/ SeedStep
    \/ SeedDone
    \/ Tick
    \/ \E c \in scope.conns, email \in scope.emails : Login(c, email, TRUE, FALSE)
    \/ \E k \in Slots : LoginFinish(k, TRUE)
    \/ \E c \in scope.conns, s \in scope.symbols : Subscribe(c, s)
    \/ \E k \in Slots : SubscribePull(k)
    \/ \E k \in Slots : SubscribeResume(k)
    \/ \E k \in Slots : SubscribePush(k)
    \/ \E c \in scope.conns, s \in scope.symbols : Unsubscribe(c, s)
    \/ \E k \in Slots : UnsubscribePull(k, FALSE)

SpecDeep == InitDeep /\ [][NextDeep]_vars

\* the server for ever: the module load runs to completion and the timer of
\* line 95 fires whenever it is due
NextLive ==
    \/ SeedStep
    \/ SeedDone
    \/ Tick
    \/ \E c \in scope.conns, email \in scope.emails, fault \in BOOLEAN :
          Login(c, email, TRUE, fault)
    \/ \E k \in Slots : LoginFinish(k, TRUE)
    \/ \E c \in scope.conns, s \in scope.symbols : Subscribe(c, s)
    \/ \E k \in Slots : SubscribePull(k)
    \/ \E k \in Slots : SubscribeResume(k)
    \/ \E k \in Slots : SubscribePush(k)
    \/ \E k \in Slots : SubscribeFault(k)
    \/ \E c \in scope.conns, event \in {"joinFeed", "unsubscribeAll"} :
          NoPayload(c, event)

SpecLive ==
    /\ InitLive /\ [][NextLive]_vars
    /\ WF_vars(SeedStep \/ SeedDone)
    /\ WF_vars(Tick)

\* the module load and the timer alone
NextEngine == SeedStep \/ SeedDone \/ Tick

SpecEngine == InitEngine /\ [][NextEngine]_vars

---------------------------------------------------------------------------
(* Properties *)
AllIdle == \A k \in Slots : tasks[k].kind = "idle"

CountSymbol(subs, symbol) ==
    Cardinality({i \in DOMAIN subs : subs[i].symbol = symbol})

\* C1: once every handler has completed, an account holds at most one persisted
\* subscription per symbol, however the subscribe calls for it interleaved.
\* (Under SpecDeep the store starts empty, so every entry comes from subscribe.)
C1_AtMostOnePerSymbol ==
    AllIdle => \A a \in Accounts, s \in StockSet : CountSymbol(users[a], s) <= 1

\* C4: when the last two requests of an authenticated connection are
\* subscribes to the same symbol, then once its handlers have completed the
\* account holds exactly one persisted subscription for the symbol, and its
\* entry price is the live price read at the second call.
C4_TwoSubscribesOneEntry ==
    \A c \in Conns :
       /\ lastReq[c].op = "subscribe" /\ lastReq[c].second
       /\ AllIdle
       => LET subs == users[lastReq[c].email]
              at == {i \in DOMAIN subs : subs[i].symbol = lastReq[c].stockCode}
          IN  /\ Cardinality(at) = 1
              /\ \A i \in at : subs[i].entryPrice = lastReq[c].priceNow

SubscribeCalled(k) ==
    /\ tasks[k].kind = "idle" /\ tasks'[k].kind = "subscribe"
SubscribeCompleted(k) ==
    /\ tasks[k].kind = "subscribe" /\ tasks[k].pc = "push" /\ tasks'[k].kind = "idle"
    /\ out'.by.op = "subscribed"

\* the same for calls that do not overlap: a subscribe that ran while no other
\* handler was in flight leaves exactly one persisted subscription for its
\* symbol, priced at the live price read when the call was made
SequentialSubscribeReplaces ==
    [][\A k \in Slots :
         /\ SubscribeCalled(k) =>
               tasks'[k].priceNow = currentPrices[tasks'[k].stockCode]
         /\ SubscribeCompleted(k) /\ tasks[k].alone =>
               LET subs == users'[userEmail[tasks[k].conn]]
                   at == {i \in DOMAIN subs : subs[i].symbol = tasks[k].stockCode}
               IN  /\ Cardinality(at) = 1
                   /\ \A i \in at : subs[i].entryPrice = tasks[k].priceNow]_vars

\* a second subscribe has completed on its own, after a tick changed the price
SequentialSecondSubscribe ==
    /\ AllIdle
    /\ out.by.op = "subscribed" /\ out.by.alone /\ out.by.prior
    /\ out.by.priceNow = currentPrices[out.by.stockCode]
    /\ nticks > 0
    /\ CountSymbol(users[out.by.email], out.by.stockCode) = 1

\* C5: when the latest request of a connection for a symbol is an unsubscribe
\* that followed a subscribe, and its handlers have completed, the account has
\* no persisted subscription for the symbol, the connection is not in the
\* symbol's group, and a login would be given no saved subscription for it.
C5_UnsubscribeAfterSubscribe ==
    \A c \in Conns :
       /\ lastReq[c].op = "unsubscribe" /\ lastReq[c].afterSubscribe
       /\ \A k \in Slots : tasks[k].kind # "idle" => tasks[k].conn # c
       => /\ ~HasSymbol(users[lastReq[c].email], lastReq[c].stockCode)
          /\ c \notin rooms[lastReq[c].stockCode]
          /\ ~HasSymbol(CleanSubs(users[lastReq[c].email], currentPrices),
                        lastReq[c].stockCode)

\* the priceUpdate events for symbol s that a step sent to connection c
Delivered(events, c, s) ==
    {i \in DOMAIN events :
        events[i].ev = "priceUpdate" /\ events[i].to = c /\ events[i].code = s}

TickStep == nticks' = nticks + 1

\* C2: a tick's priceUpdate for symbol s goes only to connections that are in
\* s's group when it is delivered, and once to each connection that is in the
\* group then; a connection outside the group gets none.  (A closed socket is
\* no connection any more: nothing is delivered to it.)
C2_DeliveryFollowsMembership ==
    [][TickStep =>
         /\ \A i \in DOMAIN out'.events : out'.events[i].ev = "priceUpdate"
         /\ \A s \in StockSet, c \in Conns :
               LET d == Delivered(out'.events, c, s) IN
               /\ c \notin rooms[s] => d = {}
               /\ c \in rooms[s] /\ connected[c] => Cardinality(d) = 1
               /\ \A i \in d : out'.events[i].price = currentPrices'[s]]_vars

\* a tick reached a connection for one symbol and not for the symbol it had
\* unsubscribed from, and did not reach a connection that never joined
C2_Witness ==
    /\ out.by.op = "tick"
    /\ \E c \in Conns, d \in Conns :
          /\ lastReq[c].op = "unsubscribe" /\ lastReq[c].stockCode = "GOOG"
          /\ Delivered(out.events, c, "GOOG") = {}
          /\ Delivered(out.events, c, "TSLA") # {}
          /\ connected[d] /\ \A s \in StockSet : Delivered(out.events, d, s) = {}

\* a subscribe event handled on a connection with no bound account
SubscribeStep(c) ==
    nevents' = nevents + 1 /\ out'.by.op = "subscribe" /\ out'.by.conn = c

\* C3: a subscribe on a connection that has not logged in changes no group
\* membership and no persisted subscription, starts no store call, and sends
\* the connection an authError.
C3_SubscribeBeforeLogin ==
    [][\A c \in Conns :
         SubscribeStep(c) /\ userEmail[c] = Undefined =>
            /\ rooms' = rooms /\ users' = users /\ tasks' = tasks
            /\ userEmail' = userEmail
            /\ \E i \in DOMAIN out'.events :
                  out'.events[i].ev = "authError" /\ out'.events[i].to = c]_vars

\* a connection that never logged in asked for a catalog symbol
C3_Witness ==
    /\ out.by.op = "subscribe" /\ out.by.stockCode \in StockSet
    /\ userEmail[out.by.conn] = Undefined
    /\ Len(out.events) = 1 /\ out.events[1].ev = "authError"
    /\ out.by.conn \notin rooms[out.by.stockCode]

\* the (connection, symbol) pairs of the room table
Memberships == {m \in Conns \X StockSet : m[1] \in rooms[m[2]]}
OneMembership ==
    Cardinality(Memberships) = 1 /\ \A m \in Memberships : connected[m[1]]
InNoGroup(c) == \A s \in StockSet : c \notin rooms[s]
EventsTo(events, c) == {i \in DOMAIN events : events[i].to = c}

\* C6 as stated: with exactly one connection in exactly one symbol's group, a
\* tick over the five catalog symbols delivers five priceUpdate events.
C6_FiveEvents ==
    [][TickStep /\ OneMembership =>
         /\ Len(out'.events) = 5
         /\ \A c \in Conns : InNoGroup(c) => EventsTo(out'.events, c) = {}]_vars

\* C6 amended: it delivers one priceUpdate event, the one of the joined symbol
\* to the joined connection, and none to a connection that is in no group.
C6_OneEvent ==
    [][TickStep /\ OneMembership =>
         /\ Len(out'.events) = 1
         /\ \A m \in Memberships :
               /\ out'.events[1].ev = "priceUpdate"
               /\ out'.events[1].to = m[1] /\ out'.events[1].code = m[2]
         /\ \A c \in Conns : InNoGroup(c) => EventsTo(out'.events, c) = {}]_vars

\* a tick ran with one connection in one group and another, open, in none
C6_Witness ==
    /\ out.by.op = "tick" /\ OneMembership /\ Len(out.events) = 1
    /\ \E c \in Conns : connected[c] /\ InNoGroup(c)

\* C7: a connection that has disconnected is in no group, in every later
\* state, whatever handler of it resumes afterwards.
C7_NoGroupAfterDisconnect ==
    \A c \in Conns : ~connected[c] => \A r \in RoomNames : c \notin rooms[r]

\* the login handler in slot k completes with success
LoginSucceeds(k) ==
    /\ tasks[k].kind = "login" /\ tasks'[k].kind = "idle"
    /\ out'.by.op = "login" /\ out'.by.ok

InCatalog(sub) == sub.symbol \in StockSet

\* C8: the cleaned list of a login holds, in order, the persisted subscriptions
\* whose symbol is in the catalog; the entry price is the live price when the
\* stored one is missing, 0, or more than 20% of the live price away from it,
\* and the stored one when it is at most 20% away (exactly 20% included).
C8_Reconciliation ==
    [][\A k \in Slots :
         LoginSucceeds(k) /\ connected[tasks[k].conn] =>
            LET stored == SelectSeq(tasks[k].subscriptions, InCatalog)
                clean == out'.events[Len(out'.events)].savedSubscriptions
            IN  /\ Len(clean) = Len(stored)
                /\ \A i \in DOMAIN stored :
                      LET live == currentPrices[stored[i].symbol]
                          has == "entryPrice" \in DOMAIN stored[i]
                          far == has /\ 100 * Abs(stored[i].entryPrice - live) > 20 * live
                      IN  /\ clean[i].symbol = stored[i].symbol
                          /\ (~has \/ far) => clean[i].entryPrice = live
                          /\ has /\ stored[i].entryPrice = 0 => clean[i].entryPrice = live
                          /\ has /\ stored[i].entryPrice # 0 /\ ~far =>
                                clean[i].entryPrice = stored[i].entryPrice]_vars

\* a subscribe or joinFeed event that names a symbol outside the catalog
UnknownSymbolStep ==
    /\ nevents' = nevents + 1
    /\ out'.by.op \in {"subscribe", "joinFeed"}
    /\ out'.by.stockCode \notin StockSet

\* only catalog symbols have group members, and a step adds no persisted
\* subscription for a symbol outside the catalog
OnlyCatalogSymbols ==
    /\ \A r \in RoomNames : rooms'[r] # {} => r \in StockSet
    /\ \A a \in Accounts : \A i \in DOMAIN users'[a] :
          users'[a][i].symbol \notin StockSet =>
             \E j \in DOMAIN users[a] : users[a][j] = users'[a][i]

\* C9 as stated: only catalog symbols have group members or are written to an
\* account by subscribe, and subscribe and joinFeed with an unknown symbol
\* change no group membership and no persisted state and send no error event.
C9_UnknownSymbolSilent ==
    [][/\ OnlyCatalogSymbols
       /\ UnknownSymbolStep =>
             /\ rooms' = rooms /\ users' = users /\ tasks' = tasks
             /\ \A i \in DOMAIN out'.events : out'.events[i].ev # "authError"]_vars

\* C9 amended: only catalog symbols have group members or are written to an
\* account by subscribe, and subscribe and joinFeed with an unknown symbol
\* change no group membership and no persisted state and send no event, except
\* that subscribe on a connection that has not logged in sends that connection
\* an authError and nothing else.
C9_UnknownSymbolRejected ==
    [][/\ OnlyCatalogSymbols
       /\ UnknownSymbolStep =>
             /\ rooms' = rooms /\ users' = users /\ tasks' = tasks
             /\ (out'.by.op = "joinFeed" \/ userEmail[out'.by.conn] # Undefined)
                   => out'.events = <<>>
             /\ \A i \in DOMAIN out'.events :
                   out'.events[i].ev = "authError"
                   /\ out'.events[i].to = out'.by.conn]_vars

\* a logged-in connection asked to subscribe to a symbol outside the catalog
C9_Witness ==
    /\ out.by.op = "subscribe" /\ out.by.stockCode = "DOGE"
    /\ userEmail[out.by.conn] # Undefined
    /\ out.events = <<>>
    /\ rooms["DOGE"] = {}
    /\ AllIdle

\* C10: a history never holds more than 100 entries, and once the warm-up is
\* over every symbol's history holds exactly 100, after any number of ticks.
C10_HistoryBounded ==
    /\ \A s \in DOMAIN stockHistory : Len(stockHistory[s]) <= 100
    /\ Running => /\ DOMAIN stockHistory = StockSet
                  /\ \A s \in StockSet : Len(stockHistory[s]) = 100

\* two ticks have run on the seeded histories
C10_Witness ==
    /\ Running /\ nticks >= 2
    /\ \A s \in StockSet :
          /\ Len(stockHistory[s]) = 100
          /\ stockHistory[s][100].timestamp = nticks * PERIOD
          /\ stockHistory[s][1].timestamp < 0

\* the warm-up of symbol s is over (line 91 has run for it)
Seeded(s) == warm.phase # "seeding" \/ IndexOf(s, 1) < warm.idx

\* C11: the current price of a symbol is at least 10.00 once its warm-up is
\* over and after every tick, also when every draw is the lowest one.
C11_PriceFloor ==
    \A s \in DOMAIN currentPrices : Seeded(s) => currentPrices[s] >= 1000

\* the warm-up and three ticks have run with the lowest draw every time, and
\* the prices are under their base prices
C11_Witness ==
    /\ Running /\ nticks >= 3
    /\ \A s \in StockSet : /\ currentPrices[s] < STOCK_BASE_PRICES[s] - 800
                           /\ currentPrices[s] >= 1000

\* a store call of the subscribe handler in slot k is rejected
SubscribeFails(k) ==
    /\ tasks[k].kind = "subscribe" /\ tasks'[k].kind = "idle"
    /\ out'.by.op = "subscribeFailed"

\* C12: an authenticated subscribe for a catalog symbol puts the connection in
\* the symbol's group before any store call, and a store call that fails
\* afterwards takes nothing back: no group membership changes, the connection
\* (if still open) is sent the loadHistory of the symbol, and the timer, the
\* prices, the histories and the other handlers in flight are as before.
C12_SubscribeSurvivesStoreFailure ==
    [][/\ \A c \in Conns :
            SubscribeStep(c) /\ userEmail[c] # Undefined
            /\ out'.by.stockCode \in StockSet => c \in rooms'[out'.by.stockCode]
       /\ \A k \in Slots :
            SubscribeFails(k) =>
               LET c == tasks[k].conn
                   code == tasks[k].stockCode
               IN  /\ rooms' = rooms
                   /\ connected[c] =>
                         out'.events = <<[ev |-> "loadHistory", to |-> c, code |-> code,
                                          history |-> stockHistory[code]]>>
                   /\ \A i \in DOMAIN out'.events : out'.events[i].to = c
                   /\ \A j \in Slots \ {k} : tasks'[j] = tasks[j]
                   /\ UNCHANGED <<warm, nticks, currentPrices, stockHistory,
                                  userEmail, connected>>]_vars

\* a subscribe has failed in the store; its connection is in the group and
\* has the history, and the timer can still fire
C12_Witness ==
    /\ out.by.op = "subscribeFailed"
    /\ out.by.conn \in rooms[out.by.stockCode]
    /\ Len(out.events) = 1 /\ out.events[1].ev = "loadHistory"
    /\ ~HasSymbol(users[userEmail[out.by.conn]], out.by.stockCode)
    /\ ENABLED Tick

\* a login that ends in a refusal, or a protected event on a connection with
\* no bound account; caller is the connection concerned
LoginRefused(c) ==
    /\ out'.by.op = "login" /\ ~out'.by.ok /\ out'.by.conn = c
    /\ \E k \in Slots : tasks[k].kind = "login" /\ tasks[k].conn = c
                        /\ tasks'[k].kind = "idle"
                        /\ ~tasks[k].fault
UnauthenticatedCall(c) ==
    /\ nevents' = nevents + 1
    /\ out'.by.op \in {"subscribe", "unsubscribe", "unsubscribeAll"}
    /\ out'.by.conn = c
    /\ userEmail[c] = Undefined
ReportedTo(c) ==
    \E i \in DOMAIN out'.events :
        out'.events[i].ev = "authError" /\ out'.events[i].to = c

\* C13: an authentication failure (a login refused for an unknown account or a
\* bad password, or a subscribe, unsubscribe or unsubscribeAll on a connection
\* with no bound account) is reported to the caller, which is still connected,
\* and changes no bound identity, group membership or persisted subscription.
C13_AuthFailureReported ==
    [][\A c \in Conns :
         (LoginRefused(c) \/ UnauthenticatedCall(c)) /\ connected[c] =>
            /\ ReportedTo(c)
            /\ userEmail' = userEmail /\ rooms' = rooms /\ users' = users]_vars

\* C13 amended: an authentication failure changes no bound identity, group
\* membership or persisted subscription; a refused login and an
\* unauthenticated subscribe are reported to the caller with an authError and
\* nothing else, and an unauthenticated unsubscribe or unsubscribeAll is
\* ignored without any event.
C13_AuthFailureReportedOrIgnored ==
    [][\A c \in Conns :
         LoginRefused(c) \/ UnauthenticatedCall(c) =>
            /\ userEmail' = userEmail /\ rooms' = rooms /\ users' = users
            /\ out'.by.op \in {"login", "subscribe"} /\ connected[c] => ReportedTo(c)
            /\ \A i \in DOMAIN out'.events :
                  out'.events[i].ev = "authError" /\ out'.events[i].to = c
            /\ out'.by.op \in {"unsubscribe", "unsubscribeAll"} =>
                  out'.events = <<>>]_vars

\* a connection that joined a feed without logging in asked to unsubscribe
\* from it: nothing was sent and it is still in the group
C13_Witness ==
    /\ out.by.op = "unsubscribe" /\ userEmail[out.by.conn] = Undefined
    /\ out.events = <<>>
    /\ out.by.conn \in rooms[out.by.stockCode]
    /\ AllIdle

\* a tick that delivers the priceUpdate of symbol s to connection c
TickTo(c, s) == Tick /\ Delivered(out'.events, c, s) # {}

\* C14: ticks keep occurring for ever, and a connection that stays connected
\* and in a symbol's group from some state on receives a priceUpdate for the
\* symbol again and again.
C14_TicksForEver ==
    /\ []<><<Tick>>_vars
    /\ \A c \in Conns, s \in StockSet :
          <>[](connected[c] /\ c \in rooms[s]) => []<><<TickTo(c, s)>>_vars

\* the same as long as the process has not exited: a store failure in a
\* handler stops no tick
TicksUnlessExited ==
    /\ []<><<Tick>>_vars \/ <>[](warm.phase = "exited")
    /\ \A c \in Conns, s \in StockSet :
          <>[](connected[c] /\ c \in rooms[s]) =>
             []<><<TickTo(c, s)>>_vars \/ <>[](warm.phase = "exited")

\* the tick loop was stopped by one event without a payload
C14_Exited ==
    /\ warm.phase = "exited" /\ out.by.op = "noPayload"
    /\ ~ENABLED Tick

\* the login handler starts in slot k / completes in slot k
LoginCalled(k) == tasks[k].kind = "idle" /\ tasks'[k].kind = "login"
LoginCompleted(k) == tasks[k].kind = "login" /\ tasks'[k].kind = "idle"

\* C15: no step of a login, successful or not, changes any account's persisted
\* subscriptions, and the list a login reads is the account's persisted list
\* as it stands: corrections and dropped entries are not written back.
C15_LoginWritesNothing ==
    [][\A k \in Slots :
         /\ LoginCalled(k) =>
               /\ users' = users
               /\ tasks'[k].found => tasks'[k].subscriptions = users[tasks'[k].email]
         /\ LoginCompleted(k) => users' = users]_vars

\* both connections have logged in to the account with the stale list, one
\* after the other; the second was shown a corrected list without the unknown
\* symbol, and the persisted list is still the stale one
C15_Witness ==
    /\ out.by.op = "login" /\ out.by.ok /\ out.events # <<>>
    /\ \A c \in Conns : userEmail[c] = "ann@x.io"
    /\ users["ann@x.io"] = StaleSubs
    /\ LET clean == out.events[Len(out.events)].savedSubscriptions
       IN  /\ Len(clean) < Len(StaleSubs)
           /\ \E i \in DOMAIN clean : clean[i] \notin {StaleSubs[j] : j \in DOMAIN StaleSubs}

\* the symbols listed in a sequence
Listed(stocks) == {stocks[i] : i \in DOMAIN stocks}

\* C16: unsubscribeAll on an authenticated connection takes the connection out
\* of the group of each listed symbol and changes nothing else: no persisted
\* subscription, no unlisted group, no other connection's membership (and
\* nothing at all when the payload holds no list).  joinFeed adds the calling
\* connection to the named group when the symbol is in the catalog, and
\* changes nothing else.
C16_MembershipOnly ==
    [][/\ nevents' = nevents + 1 /\ out'.by.op = "unsubscribeAll"
          /\ userEmail[out'.by.conn] # Undefined =>
             LET c == out'.by.conn
                 gone == IF out'.by.isArray THEN Listed(out'.by.stocks) ELSE {}
             IN  /\ rooms' = [r \in RoomNames |->
                                IF r \in gone THEN rooms[r] \ {c} ELSE rooms[r]]
                 /\ UNCHANGED <<users, userEmail, tasks, connected>>
                 /\ out'.events = <<>>
       /\ nevents' = nevents + 1 /\ out'.by.op = "joinFeed" =>
             LET c == out'.by.conn
                 code == out'.by.stockCode
             IN  /\ rooms' = [r \in RoomNames |->
                                IF r = code /\ code \in StockSet
                                THEN rooms[r] \cup {c} ELSE rooms[r]]
                 /\ UNCHANGED <<users, userEmail, tasks, connected>>
                 /\ out'.events = <<>>]_vars

\* a logged-in connection with five restored groups listed two of them and an
\* unknown symbol: it left those two, kept the other three, and the account's
\* persisted list is as it was
C16_Witness ==
    /\ out.by.op = "unsubscribeAll" /\ out.by.isArray
    /\ out.by.stocks = <<"TSLA", "GOOG", "DOGE">>
    /\ userEmail[out.by.conn] = "ann@x.io"
    /\ {r \in RoomNames : out.by.conn \in rooms[r]} = {"AMZN", "META", "NVDA"}
    /\ users["ann@x.io"] = StaleSubs

\* the loadHistory events for symbol s that a step sent to connection c
Histories(events, c, s) ==
    {i \in DOMAIN events :
        events[i].ev = "loadHistory" /\ events[i].to = c /\ events[i].code = s}

\* C17: a successful login sends the connection exactly one loadHistory for
\* each distinct catalog symbol of the list it read and none for any other
\* symbol, and a subscribe that completes sends exactly one loadHistory, for
\* its symbol; the lists are those that subscribe and unsubscribe calls leave.
C17_OneHistoryPerSymbol ==
    [][\A k \in Slots :
         /\ LoginSucceeds(k) /\ connected[tasks[k].conn] =>
               \A s \in StockSet :
                  Cardinality(Histories(out'.events, tasks[k].conn, s)) =
                     IF HasSymbol(tasks[k].subscriptions, s) THEN 1 ELSE 0
         /\ SubscribeCompleted(k) /\ connected[tasks[k].conn] =>
               \A s \in StockSet :
                  Cardinality(Histories(out'.events, tasks[k].conn, s)) =
                     IF s = tasks[k].stockCode THEN 1 ELSE 0]_vars

\* the same for lists that hold no symbol twice
OneHistoryPerEntry ==
    [][\A k \in Slots :
         /\ LoginSucceeds(k) /\ connected[tasks[k].conn] =>
               \A s \in StockSet :
                  Cardinality(Histories(out'.events, tasks[k].conn, s)) =
                     CountSymbol(tasks[k].subscriptions, s)
         /\ SubscribeCompleted(k) /\ connected[tasks[k].conn] =>
               \A s \in StockSet :
                  Cardinality(Histories(out'.events, tasks[k].conn, s)) =
                     IF s = tasks[k].stockCode THEN 1 ELSE 0]_vars

Last(seq) == seq[Len(seq)]

\* the data point that a priceUpdate event carries
PointOf(event) ==
    [code |-> event.code, price |-> event.price, timestamp |-> event.timestamp]

\* C18: once a symbol is seeded, and after every tick, its last history entry
\* carries its current price; a tick appends one entry per symbol; and the
\* priceUpdate events of a tick come in catalog order, each one equal to the
\* last history entry of its symbol.
C18_AdvanceAppendDeliver ==
    [][/\ \A s \in DOMAIN stockHistory' :
             Seeded(s)' => Last(stockHistory'[s]).price = currentPrices'[s]
       /\ TickStep =>
            /\ \A s \in StockSet :
                  LET h == stockHistory'[s] IN
                  /\ Last(h).price = currentPrices'[s]
                  /\ h[Len(h) - 1] = Last(stockHistory[s])
            /\ \A i \in DOMAIN out'.events :
                  /\ PointOf(out'.events[i]) = Last(stockHistory'[out'.events[i].code])
                  /\ \A j \in DOMAIN out'.events :
                        i < j => IndexOf(out'.events[i].code, 1)
                                    <= IndexOf(out'.events[j].code, 1)]_vars

\* the second tick reached a connection in all five groups, first for GOOG and
\* last for NVDA, with prices that had moved
C18_Witness ==
    /\ out.by.op = "tick" /\ nticks = 2
    /\ Len(out.events) = 5
    /\ out.events[1].code = "GOOG" /\ out.events[5].code = "NVDA"
    /\ \A i \in DOMAIN out.events :
          out.events[i].price = currentPrices[out.events[i].code]
    /\ out.events[1].price # STOCK_BASE_PRICES["GOOG"]
    /\ out.events[5].price # STOCK_BASE_PRICES["NVDA"]

\* the time of the g-th entry ever generated for a symbol: the 100 seeded
\* entries, then the ticks
Stamp(g) ==
    IF g <= WARMUP_STEPS THEN (g - WARMUP_STEPS - 1) * PERIOD
    ELSE (g - WARMUP_STEPS) * PERIOD

\* C19: after k ticks a history is the last 100 of the entries generated so
\* far (the 100 seeded ones, then the k ticks), in the order of generation: a
\* tick moves every kept entry one place down and puts its own last.  A
\* loadHistory carries the history as it stands, the newest tick last.
\* (Histories change at the end of seeding and at ticks only, so the first
\* conjunct is stated on those steps; a loadHistory is looked at when sent.)
C19_FifoEviction ==
    [][/\ (Running' /\ (TickStep \/ ~Running)) =>
            \A s \in StockSet :
               /\ Len(stockHistory'[s]) = 100
               /\ \A p \in 1..100 :
                     stockHistory'[s][p].timestamp = Stamp(nticks' + p)
       /\ TickStep =>
            \A s \in StockSet :
               stockHistory'[s] =
                  Append(Tail(stockHistory[s]), Last(stockHistory'[s]))
       /\ \A i \in DOMAIN out'.events :
            (out'.by # out.by /\ out'.events[i].ev = "loadHistory") =>
               LET history == out'.events[i].history IN
               /\ history = stockHistory'[out'.events[i].code]
               /\ \A p \in 1..99 : history[p].timestamp < history[p + 1].timestamp
               /\ nticks' > 0 => Last(history).timestamp = nticks' * PERIOD]_vars

\* a history sent after two ticks: it starts at the third seeded entry and
\* ends with the two ticks
C19_Witness ==
    /\ nticks = 2
    /\ \E i \in DOMAIN out.events :
          /\ out.events[i].ev = "loadHistory"
          /\ LET history == out.events[i].history IN
             /\ Len(history) = 100
             /\ history[1].timestamp = 0 - 98 * PERIOD
             /\ history[98].timestamp = 0 - PERIOD
             /\ history[99].timestamp = PERIOD
             /\ history[100].timestamp = 2 * PERIOD
             /\ history[100].price = currentPrices[out.events[i].code]

\* a step of the subscribe handler in slot k that writes to the store
SubscribeWrites(k) ==
    /\ tasks[k].kind = "subscribe"
    /\ tasks'[k] # tasks[k]
    /\ users' # users

\* C20: the $pull and the $push of a subscribe change the persisted
\* subscriptions of the account the connection was bound to when subscribe
\* was called, and of no other account, also when a login rebinds the
\* connection while the writes are in flight.
C20_OnlyCallerAccount ==
    [][\A k \in Slots :
          SubscribeWrites(k) =>
             \A e \in DOMAIN users :
                e # tasks[k].caller => users'[e] = users[e]]_vars

====
